---- MODULE Spec2Model ----
(***************************************************************************)
(* A model of kellnerd/snap_storage: the SnapStorage facade                *)
(* (src/src/snap_storage.ts, the revision with the uri and snap tables and *)
(* the cache method) over the helpers of src/src/snapshot.ts.              *)
(*                                                                         *)
(* Conventions.  An optional value (T | undefined) is a set with at most   *)
(* one element: {} is undefined, {x} is x.  Byte content and text are      *)
(* strings.  An operation whose result depends on the file system, on the  *)
(* fetcher or on the order SQLite returns equal timestamps in is a set of  *)
(* outcomes, and the action that performs it picks one.                    *)
(***************************************************************************)
EXTENDS Integers, Sequences, FiniteSets, TLC

\* ---------------------------------------------------------------- bounds

\* The wall clock runs from 0 to MaxTime seconds.
MaxTime == 1

\* The snap table holds at most MaxSnaps rows.
MaxSnaps == 2

\* ------------------------------------------------------------- optionals

Undefined == {}

Some(x) == {x}

The(s) == CHOOSE x \in s : TRUE

\* ---------------------------------------------------------------- inputs

\* The URI strings of a run: two strings that differ only by case, or two
\* that differ only by surrounding whitespace.
UriPairs == {{"test:a", "test:A"}, {"test:a", " test:a "}}

Uris == UNION UriPairs

\* The data directory the storage was opened with (constructor argument).
directory == "test_data"

JsonValues == {[value |-> "old"], [value |-> "new"]}

\* JSON.stringify of an object with the single string property "value".
stringify(v) == "{\"value\":\"" \o v.value \o "\"}"

JsonPrefix == "{\"value\":\""

JsonSuffix == "\"}"

\* JSON.parse restricted to the texts stringify produces: the parsed value,
\* or undefined for a SyntaxError.
parse(text) ==
    LET n == Len(text)
        p == Len(JsonPrefix)
        s == Len(JsonSuffix)
    IN  IF /\ n >= p + s
           /\ SubSeq(text, 1, p) = JsonPrefix
           /\ SubSeq(text, n - s + 1, n) = JsonSuffix
           /\ \A i \in (p + 1)..(n - s) : SubSeq(text, i, i) \notin {"\"", "\\"}
        THEN Some([value |-> SubSeq(text, p + 1, n - s)])
        ELSE Undefined

PlainText == "test content"

\* Content handed to createSnap: JSON texts and one text that is not JSON.
Contents == {stringify(v) : v \in JsonValues} \cup {PlainText}

\* ------------------------------------------------------------ snapshot.ts

hashLength == 64

dirNameLength == 2

\* hash: the lowercase hex SHA-256 digest of the content (the digests below
\* are the SHA-256 values of the contents the model uses).
hash(content) ==
    CASE content = "{\"value\":\"old\"}" ->
           "041e5924ebd1eca8a610f9391249b2e097f20f7a2802232408200cf883fb859a"
      [] content = "{\"value\":\"new\"}" ->
           "66aa6f111c930aa6fbffca28a533ac9fd810827244947b1ab6c41af1914dd666"
      [] content = "test content" ->
           "6ae8a75555209fd6c44157c0aed8016e763ff435a19cf186f76863140143ff72"
      [] content = "" ->
           "e3b0c44298fc1c149afbf4c8996fb92427ae41e4649b934ca495991b7852b855"

\* snapPath: basePath/snaps/<first 2 digest chars>/<rest of the digest>; the
\* assertion on the digest length makes it undefined for any other length.
snapPath(basePath, contentHash) ==
    IF Len(contentHash) = hashLength
    THEN Some(basePath \o "/snaps/" \o SubSeq(contentHash, 1, dirNameLength)
              \o "/" \o SubSeq(contentHash, dirNameLength + 1, Len(contentHash)))
    ELSE Undefined


\* ------------------------------------------------------------------ state

VARIABLES
    uris,      \* the URI strings the caller uses
    dateNow,   \* Date.now(): the wall clock, in milliseconds
    db_uri,    \* table uri: the sequence of its value column, the id is the index
    db_snap,   \* table snap: the rows (uri_id, timestamp, content_hash), in insertion order
    files,     \* the files under directory/snaps: path -> bytes
    dirs,      \* the directories under directory/snaps: a set of paths
    ret,       \* the call that has just completed: its arguments and what it
               \* returned or threw; "idle" once the caller has taken the result
    calls      \* the calls in flight that are not awaited one after the other:
               \* per task, the call it is suspended in and its local variables

vars == <<uris, dateNow, db_uri, db_snap, files, dirs, ret, calls>>

\* now: the current timestamp in seconds since the epoch.
now == dateNow \div 1000

\* Policy values: maxAge and maxTimestamp are both optional.
Policy(maxAge, maxTimestamp) == [maxAge |-> maxAge, maxTimestamp |-> maxTimestamp]

NoPolicy == Policy(Undefined, Undefined)

\* followsPolicy with every snapshot taken for too old.
followsPolicy_NeverFresh(snap, policy) == FALSE

\* followsPolicy: a falsy maxAge (undefined or 0) accepts every snapshot.

followsPolicy(snap, policy) ==
    IF policy.maxAge # Undefined /\ The(policy.maxAge) # 0
    THEN now < snap.timestamp + The(policy.maxAge)
    ELSE TRUE

\* ------------------------------------------------------------------ errors

\* new Error(message)
Error(message) == [name |-> "Error", message |-> message, response |-> Undefined]

\* new ResponseError(message, response): the error keeps the response.
ResponseError(message, response) ==
    [name |-> "ResponseError", message |-> message, response |-> Some(response)]

\* What the file system (Deno.mkdir, Deno.create, write, Deno.readFile) throws.
StorageIO == [name |-> "StorageIO", message |-> "file system", response |-> Undefined]

\* What a fetcher that fails throws (fetch rejects with a TypeError).
FetcherError == [name |-> "TypeError", message |-> "fetch failed", response |-> Undefined]

NoMatchingSnapshot == "No matching snapshot found"

NoValidJSON == "Snapshot does not contain valid JSON"

FailedToFetch == "Failed to fetch resource"

\* ---------------------------------------------------------- metadata index

\* The join without its WHERE clause: the rows of every URI.
SnapsOfUri_AllUris(value) == {db_snap[i] : i \in 1..Len(db_snap)}

\* The rows of table snap joined with table uri where uri.value is the argument.
SnapsOfUri(value) ==
    {db_snap[i] : i \in {j \in 1..Len(db_snap) : db_uri[db_snap[j].uri_id] = value}}

\* The query ordered ascending: ORDER BY timestamp LIMIT 1.
OrderByTimestampDescLimit1_Asc(rows) ==
    {r \in rows : \A q \in rows : q.timestamp >= r.timestamp}

\* ORDER BY timestamp DESC LIMIT 1: a row no other row is later than; which
\* of several rows of the same second SQLite returns is not determined.

OrderByTimestampDescLimit1(rows) ==
    {r \in rows : \A q \in rows : q.timestamp <= r.timestamp}

\* The query without the condition on uri.value.
latestSnapQuery_OfAnyUri(value) ==
    OrderByTimestampDescLimit1({db_snap[i] : i \in 1..Len(db_snap)})

\* The query ordered by insertion: ORDER BY snap.rowid DESC LIMIT 1.
latestSnapQuery_LastInserted(value) ==
    LET mine == {i \in 1..Len(db_snap) : db_uri[db_snap[i].uri_id] = value}
    IN  {db_snap[i] : i \in {j \in mine : \A k \in mine : k <= j}}

\* #latestSnapQuery.first([uri]): the rows it may return; none when empty.
latestSnapQuery(value) == OrderByTimestampDescLimit1(SnapsOfUri(value))

\* The latest-snapshot query of the revision that takes a point in time:
\* the same query restricted to timestamp <= maxTimestamp.
latestSnapQueryUpTo(value, maxTimestamp) ==
    OrderByTimestampDescLimit1({r \in SnapsOfUri(value) : r.timestamp <= maxTimestamp})

\* The URI string trimmed and in lower case.
Normalized(value) ==
    CASE value = "test:A" -> "test:a"
      [] value = " test:a " -> "test:a"
      [] OTHER -> value

\* The uri table with a conflict between strings that are equal once they
\* are trimmed and in lower case.
createUriQuery_Normalizing(value) ==
    IF \E i \in 1..Len(db_uri) : Normalized(db_uri[i]) = Normalized(value)
    THEN [id |-> CHOOSE i \in 1..Len(db_uri) : Normalized(db_uri[i]) = Normalized(value),
          db_uri |-> db_uri]
    ELSE [id |-> Len(db_uri) + 1, db_uri |-> Append(db_uri, value)]

\* A plain INSERT INTO uri ... RETURNING id on a column that is not unique.
createUriQuery_AlwaysInsert(value) ==
    [id |-> Len(db_uri) + 1, db_uri |-> Append(db_uri, value)]

\* #createUriQuery.first([uri]): insert, or on conflict keep the row; RETURNING id.
createUriQuery(value) ==
    IF \E i \in 1..Len(db_uri) : db_uri[i] = value
    THEN [id |-> CHOOSE i \in 1..Len(db_uri) : db_uri[i] = value, db_uri |-> db_uri]
    ELSE [id |-> Len(db_uri) + 1, db_uri |-> Append(db_uri, value)]

\* INSERT OR REPLACE with (uri_id, timestamp) as the key: a row of the same
\* URI and second is replaced.
createSnapQuery_Replacing(uriId, timestamp, contentHash) ==
    LET row == [uri_id |-> uriId, timestamp |-> timestamp, content_hash |-> contentHash]
        same(r) == r.uri_id = uriId /\ r.timestamp = timestamp
    IN  IF \E i \in 1..Len(db_snap) : same(db_snap[i])
        THEN [i \in 1..Len(db_snap) |-> IF same(db_snap[i]) THEN row ELSE db_snap[i]]
        ELSE Append(db_snap, row)

\* #createSnapQuery.execute([uriId, timestamp, contentHash]): one more row.
createSnapQuery(uriId, timestamp, contentHash) ==
    Append(db_snap, [uri_id |-> uriId, timestamp |-> timestamp, content_hash |-> contentHash])


\* ----------------------------------------------------------- content store

\* SnapMeta: what writeSnap returns and getLatestSnap rebuilds from a row.
SnapMeta(timestamp, contentHash, basePath) ==
    [timestamp |-> timestamp, contentHash |-> contentHash,
     path |-> The(snapPath(basePath, contentHash))]

WriteOptions(previousHash) == [previousHash |-> previousHash]

\* Content: text (a string, encoded to bytes), or a one-shot stream of bytes
\* that has been read (is disturbed) or has not.
Text(data) == [data |-> data, stream |-> FALSE, disturbed |-> FALSE]

Stream(data) == [data |-> data, stream |-> TRUE, disturbed |-> FALSE]

\* The content once it has been read to its end: a stream is then disturbed.
disturb(content) ==
    IF content.stream THEN [content EXCEPT !.disturbed = TRUE] ELSE content

\* The bytes a reader gets from the content: those of a text always, those
\* of a stream only while nobody has read it.
readAll(content) ==
    IF content.stream /\ content.disturbed THEN "" ELSE content.data

\* The stream given to the digest first and to the file afterwards.
teeContent_HashThenPipe(content) ==
    [forHash |-> content, forFile |-> disturb(content)]

\* content.tee(): two independent copies of a stream, one for the digest and
\* one for the file; bytes need no copy.
teeContent(content) == [forHash |-> content, forFile |-> content]

\* dirname(path): the path without its last segment, the file name (the
\* digest without its first dirNameLength characters).
dirname(path) == SubSeq(path, 1, Len(path) - (hashLength - dirNameLength) - 1)

\* Deno.mkdir(dirname(path), { recursive: true }): the directory exists
\* afterwards, whether it did before or not.
mkdir(dir) == dirs \cup {dir}

\* The file as it is when the write has not been waited for: created, empty.
writeFile_NotAwaited(path, data) == (path :> "") @@ files

\* The file created (truncated) and written to its end: a full overwrite.
writeFile(path, data) == (path :> data) @@ files

\* writeSnap(basePath, content, options): the outcomes of writing the content
\* at the path of its digest.  A digest equal to options.previousHash skips
\* the write.  Otherwise the directory is ensured and the file is created
\* (truncated) and written; the file system may refuse before anything is
\* done, and a write refused after the creation leaves the file truncated.
writeSnap(basePath, content, options) ==
    LET timestamp == now
        copies == teeContent(content)
        contentHash == hash(readAll(copies.forHash))
        snap == SnapMeta(timestamp, contentHash, basePath)
        dir == dirname(snap.path)
    IN  IF options.previousHash = Some(contentHash)
        THEN {[files |-> files, dirs |-> dirs, snap |-> Some(snap), error |-> Undefined]}
        ELSE {[files |-> writeFile(snap.path, readAll(copies.forFile)),
               dirs |-> mkdir(dir), snap |-> Some(snap), error |-> Undefined],
              [files |-> files, dirs |-> dirs,
               snap |-> Undefined, error |-> Some(StorageIO)],
              [files |-> (snap.path :> "") @@ files, dirs |-> mkdir(dir),
               snap |-> Undefined, error |-> Some(StorageIO)]}

\* Deno.readFile / Deno.readTextFile: the bytes at the path, undefined when
\* there is no such file (the read throws).
readFile(path) == IF path \in DOMAIN files THEN Some(files[path]) ELSE Undefined

\* ------------------------------------------------------------ SnapStorage

\* createSnap keeping the files of every URI in a directory of its own.
createSnap_DirectoryPerUri(uri, content, options) ==
    {IF w.error # Undefined
     THEN [files |-> w.files, dirs |-> w.dirs, db_uri |-> db_uri, db_snap |-> db_snap,
           snap |-> Undefined, error |-> w.error]
     ELSE LET u == createUriQuery(uri)
              snap == The(w.snap)
          IN  [files |-> w.files, dirs |-> w.dirs,
               db_uri |-> u.db_uri,
               db_snap |-> createSnapQuery(u.id, snap.timestamp, snap.contentHash),
               snap |-> Some(snap), error |-> Undefined]
     : w \in writeSnap(directory \o "/" \o uri, content, options)}

\* createSnap(uri, content, options): writeSnap, then the uri row is
\* resolved or created and the snap row is inserted.  An error of writeSnap
\* is thrown before either statement runs.
createSnap(uri, content, options) ==
    {IF w.error # Undefined
     THEN [files |-> w.files, dirs |-> w.dirs, db_uri |-> db_uri, db_snap |-> db_snap,
           snap |-> Undefined, error |-> w.error]
     ELSE LET u == createUriQuery(uri)
              snap == The(w.snap)
          IN  [files |-> w.files, dirs |-> w.dirs,
               db_uri |-> u.db_uri,
               db_snap |-> createSnapQuery(u.id, snap.timestamp, snap.contentHash),
               snap |-> Some(snap), error |-> Undefined]
     : w \in writeSnap(directory, content, options)}

\* The metadata with the path taken relative to the default directory ".".
snapOfRow_DefaultDirectory(row) == SnapMeta(row.timestamp, row.content_hash, ".")

\* The metadata getLatestSnap builds from the row the query returned: the
\* path is recomputed from the digest and the directory of the storage.
snapOfRow(row) == SnapMeta(row.timestamp, row.content_hash, directory)

\* getLatestSnap(uri, maxTimestamp): the values it may return.  Without
\* maxTimestamp the query is #latestSnapQuery.
getLatestSnap(uri, maxTimestamp) ==
    LET found == IF maxTimestamp = Undefined
                 THEN latestSnapQuery(uri)
                 ELSE latestSnapQueryUpTo(uri, The(maxTimestamp))
    IN  IF found = {}
        THEN {Undefined}
        ELSE {Some(snapOfRow(r)) : r \in found}

\* getSnap without the filter.
getSnap_IgnorePolicy(uri, policy) == getLatestSnap(uri, policy.maxTimestamp)

\* getSnap(uri, policy): getLatestSnap, discarded when it fails the policy.
getSnap(uri, policy) ==
    {IF snap = Undefined \/ ~followsPolicy(The(snap), policy) THEN Undefined ELSE snap
     : snap \in getLatestSnap(uri, policy.maxTimestamp)}

\* loadJSON looking the snapshot up with getLatestSnap instead of getSnap.
loadJSON_IgnorePolicy(uri, policy) ==
    {IF s = Undefined
     THEN [snap |-> Undefined, json |-> Undefined,
           error |-> Some(Error(NoMatchingSnapshot)), reads |-> 0]
     ELSE LET snap == The(s)
              data == readFile(snap.path)
          IN  IF data = Undefined
              THEN [snap |-> Undefined, json |-> Undefined,
                    error |-> Some(StorageIO), reads |-> 1]
              ELSE IF parse(The(data)) = Undefined
              THEN [snap |-> Undefined, json |-> Undefined,
                    error |-> Some(Error(NoValidJSON)), reads |-> 1]
              ELSE [snap |-> Some(snap), json |-> parse(The(data)),
                    error |-> Undefined, reads |-> 1]
     : s \in getLatestSnap(uri, policy.maxTimestamp)}

\* loadJSON answering the text of the file as it is.
loadJSON_Unparsed(uri, policy) ==
    {IF s = Undefined
     THEN [snap |-> Undefined, json |-> Undefined,
           error |-> Some(Error(NoMatchingSnapshot)), reads |-> 0]
     ELSE LET snap == The(s)
              data == readFile(snap.path)
          IN  IF data = Undefined
              THEN [snap |-> Undefined, json |-> Undefined,
                    error |-> Some(StorageIO), reads |-> 1]
              ELSE [snap |-> Some(snap), json |-> Some([value |-> The(data)]),
                    error |-> Undefined, reads |-> 1]
     : s \in getSnap(uri, policy)}

\* loadJSON(uri, policy): the snapshot of getSnap with its file parsed as
\* JSON; throws when there is none, when the file cannot be read and when
\* the text is no JSON.
loadJSON(uri, policy) ==
    {IF s = Undefined
     THEN [snap |-> Undefined, json |-> Undefined,
           error |-> Some(Error(NoMatchingSnapshot)), reads |-> 0]
     ELSE LET snap == The(s)
              data == readFile(snap.path)
          IN  IF data = Undefined
              THEN [snap |-> Undefined, json |-> Undefined,
                    error |-> Some(StorageIO), reads |-> 1]
              ELSE IF parse(The(data)) = Undefined
              THEN [snap |-> Undefined, json |-> Undefined,
                    error |-> Some(Error(NoValidJSON)), reads |-> 1]
              ELSE [snap |-> Some(snap), json |-> parse(The(data)),
                    error |-> Undefined, reads |-> 1]
     : s \in getSnap(uri, policy)}


\* ----------------------------------------------------- responses, fetcher

\* new Response(data): a successful response whose body is unread.
Response(data) == [ok |-> TRUE, body |-> Some(data), bodyUsed |-> FALSE]

FetchedBody == stringify([value |-> "old"])

\* What the fetcher may answer: a response, successful or not, with a body
\* or with none.
Responses ==
    {[ok |-> TRUE, body |-> Some(FetchedBody), bodyUsed |-> FALSE],
     [ok |-> FALSE, body |-> Some(PlainText), bodyUsed |-> FALSE],
     [ok |-> TRUE, body |-> Undefined, bodyUsed |-> FALSE]}

\* What a call of the fetcher may do: answer, or fail (undefined).
FetchResults == {Undefined} \cup {Some(r) : r \in Responses}

MutatedBody == stringify([value |-> "new"])

\* The response mutators a caller passes: none, or one that reads the
\* fetched body and answers new Response(MutatedBody, response).
Mutators == {"none", "replace"}

responseMutator(mutator, response) ==
    IF mutator = "replace"
    THEN [ok |-> response.ok, body |-> Some(MutatedBody), bodyUsed |-> FALSE]
    ELSE response

\* The test of the body alone.
isStorable_AnyStatus(response) == response.body # Undefined

\* response.ok && response.body
isStorable(response) == response.ok /\ response.body # Undefined

\* The copy taken of the response as it was fetched.
cloneBody_OfFetched(fetched, response) == The(fetched.body)

\* response.clone().body: the body createSnap is given is a copy of the body
\* of `response` as it is when the snapshot is created; `fetched` is the
\* response the fetcher answered.
cloneBody(fetched, response) == The(response.body)

\* The response when its own body, not that of a clone, was given away to be
\* read: its body is used.
contentReturned_BodyGivenAway(response) == [response EXCEPT !.bodyUsed = TRUE]

\* content: response -- the response cache hands back after the body of its
\* clone was persisted: reading the clone leaves the response itself unread.
contentReturned(response) == response

\* The error cache throws for a response it does not store: a ResponseError
\* that carries the response.
FetchFailed(response) == ResponseError(FailedToFetch, response)

\* No hint given to createSnap, whatever snapshot was found.
previousHashOf_None(snap) == Undefined

\* previousHash: snap?.contentHash, the digest of the snapshot cache has
\* found, when it has found one.
previousHashOf(snap) ==
    IF snap = Undefined THEN Undefined ELSE Some(The(snap).contentHash)

\* The flag set whether the response was fetched and stored or not.
isFresh_Always(stored) == TRUE

\* isFresh: false from the start of cache, true once the fetched response
\* has been stored by createSnap.
isFresh(stored) == stored

CacheOptions(fetchResult, mutator, policy) ==
    [fetch |-> fetchResult, responseMutator |-> mutator, policy |-> policy]

\* cache(url, options): the latest snapshot that follows the policy is read
\* from its file; otherwise the resource is fetched, and stored when the
\* response is successful and has a body.
cache(url, options) ==
    UNION {
      IF s # Undefined /\ followsPolicy(The(s), options.policy)
      THEN LET data == readFile(The(s).path)
           IN  IF data = Undefined
               THEN {[files |-> files, dirs |-> dirs, db_uri |-> db_uri, db_snap |-> db_snap,
                      snap |-> Undefined, response |-> Undefined, isFresh |-> FALSE,
                      error |-> Some(StorageIO), fetches |-> 0]}
               ELSE {[files |-> files, dirs |-> dirs, db_uri |-> db_uri, db_snap |-> db_snap,
                      snap |-> s, response |-> Some(Response(The(data))),
                      isFresh |-> isFresh(FALSE),
                      error |-> Undefined, fetches |-> 0]}
      ELSE IF options.fetch = Undefined
      THEN {[files |-> files, dirs |-> dirs, db_uri |-> db_uri, db_snap |-> db_snap,
             snap |-> Undefined, response |-> Undefined, isFresh |-> FALSE,
             error |-> Some(FetcherError), fetches |-> 1]}
      ELSE LET fetched == The(options.fetch)
           IN  IF isStorable(fetched)
               THEN LET response == responseMutator(options.responseMutator, fetched)
                        previousHash == previousHashOf(s)
                    IN  {[files |-> c.files, dirs |-> c.dirs, db_uri |-> c.db_uri, db_snap |-> c.db_snap,
                          snap |-> c.snap,
                          response |-> IF c.error = Undefined
                                       THEN Some(contentReturned(response))
                                       ELSE Undefined,
                          isFresh |-> c.error = Undefined /\ isFresh(TRUE),
                          error |-> c.error, fetches |-> 1]
                         : c \in createSnap(url, Stream(cloneBody(fetched, response)),
                                            WriteOptions(previousHash))}
               ELSE {[files |-> files, dirs |-> dirs, db_uri |-> db_uri, db_snap |-> db_snap,
                      snap |-> Undefined, response |-> Undefined, isFresh |-> FALSE,
                      error |-> Some(FetchFailed(fetched)),
                      fetches |-> 1]}
      : s \in getLatestSnap(url, options.policy.maxTimestamp)}

\* ----------------------------------------------------------- call inputs

\* maxAge values: the two of the tests, zero, and one second.
MaxAges == {-9999, 0, 1, 9999}

\* The points in time a lookup is bounded by.
MaxTimestamps == 0..MaxTime

\* The policies of the calls: none, a maxAge, or a maxTimestamp.
Policies ==
    {NoPolicy}
    \cup {Policy(Some(a), Undefined) : a \in MaxAges}
    \cup {Policy(Undefined, Some(t)) : t \in MaxTimestamps}

\* The fetcher is consulted only by a call that fetches, and the mutator is
\* called only with a response that is stored: when every lookup of the call
\* serves a stored snapshot, what the fetcher would do is left out, and a
\* mutator is passed only with a fetch that has something to store.
FetchInputs(url, policy) ==
    IF \A s \in getLatestSnap(url, policy.maxTimestamp) :
          s # Undefined /\ followsPolicy(The(s), policy)
    THEN {<<Undefined, "none">>}
    ELSE {f \in FetchResults \X Mutators :
            f[2] = "none" \/ (f[1] # Undefined /\ The(f[1]).body # Undefined)}

\* The previousHash a caller of createSnap knows: none, or the digest of a
\* latest snapshot of the URI.
KnownHashes(uri) ==
    {Undefined} \cup
    {Some(The(s).contentHash) : s \in getLatestSnap(uri, Undefined) \ {Undefined}}

\* The record of a completed call.
Ret(op, uri) ==
    [op |-> op, uri |-> uri, content |-> Undefined, previousHash |-> Undefined,
     policy |-> NoPolicy, fetch |-> Undefined, responseMutator |-> "none",
     snap |-> Undefined, json |-> Undefined, response |-> Undefined,
     isFresh |-> FALSE, error |-> Undefined, fetches |-> 0, reads |-> 0]

Idle == Ret("idle", "")

\* ----------------------------------------------------------------- actions
\* The calls are made one after the other, each awaited before the next is
\* made: a call starts when the result of the one before has been taken.

\* The tasks of the caller that make calls without awaiting each other.
Tasks == {"t1", "t2"}

\* The local variables of a call in flight, and where it is suspended.
NoCall ==
    [op |-> "idle", pc |-> "idle", uri |-> "", content |-> "",
     previousHash |-> Undefined, timestamp |-> 0, contentHash |-> "", path |-> "",
     offset |-> 0, row |-> 0, snap |-> Undefined, data |-> Undefined,
     error |-> Undefined]

Init ==
    /\ calls = [t \in Tasks |-> NoCall]
    /\ uris \in UriPairs
    /\ dateNow = 0
    /\ db_uri = <<>>
    /\ db_snap = <<>>
    /\ files = <<>>
    /\ dirs = {}
    /\ ret = Idle

\* Time passes between two calls: the clock reaches the next second.
Tick ==
    /\ ret = Idle
    /\ dateNow + 1000 <= MaxTime * 1000
    /\ dateNow' = dateNow + 1000
    /\ UNCHANGED <<calls, uris, db_uri, db_snap, files, dirs, ret>>

CreateSnap ==
    /\ ret = Idle
    /\ Len(db_snap) < MaxSnaps
    /\ \E uri \in uris, content \in Contents :
      \E previousHash \in KnownHashes(uri) :
        \E c \in createSnap(uri, Text(content), WriteOptions(previousHash)) :
          /\ files' = c.files
          /\ dirs' = c.dirs
          /\ db_uri' = c.db_uri
          /\ db_snap' = c.db_snap
          /\ ret' = [Ret("createSnap", uri) EXCEPT
                       !.content = Some(content), !.previousHash = previousHash,
                       !.snap = c.snap, !.error = c.error]
          /\ UNCHANGED <<calls, uris, dateNow>>

GetLatestSnap ==
    /\ ret = Idle
    /\ \E uri \in uris, maxTimestamp \in {Undefined} \cup {Some(t) : t \in MaxTimestamps} :
      \E s \in getLatestSnap(uri, maxTimestamp) :
        /\ ret' = [Ret("getLatestSnap", uri) EXCEPT
                     !.policy = Policy(Undefined, maxTimestamp), !.snap = s]
        /\ UNCHANGED <<calls, uris, dateNow, db_uri, db_snap, files, dirs>>

GetSnap ==
    /\ ret = Idle
    /\ \E uri \in uris, policy \in Policies :
      \E s \in getSnap(uri, policy) :
        /\ ret' = [Ret("getSnap", uri) EXCEPT !.policy = policy, !.snap = s]
        /\ UNCHANGED <<calls, uris, dateNow, db_uri, db_snap, files, dirs>>

LoadJSON ==
    /\ ret = Idle
    /\ \E uri \in uris, policy \in Policies :
      \E l \in loadJSON(uri, policy) :
        /\ ret' = [Ret("loadJSON", uri) EXCEPT
                     !.policy = policy, !.snap = l.snap, !.json = l.json,
                     !.error = l.error, !.reads = l.reads]
        /\ UNCHANGED <<calls, uris, dateNow, db_uri, db_snap, files, dirs>>

Cache ==
    /\ ret = Idle
    /\ \E url \in uris, policy \in Policies :
      \E f \in FetchInputs(url, policy) :
       LET fetchResult == f[1]
           mutator == f[2]
       IN
       \E c \in cache(url, CacheOptions(fetchResult, mutator, policy)) :
        /\ Len(c.db_snap) <= MaxSnaps
        /\ files' = c.files
        /\ dirs' = c.dirs
        /\ db_uri' = c.db_uri
        /\ db_snap' = c.db_snap
        /\ ret' = [Ret("cache", url) EXCEPT
                     !.policy = policy,
                     !.fetch = IF c.fetches = 0 THEN Undefined ELSE fetchResult,
                     !.responseMutator = IF c.fetches = 0 THEN "none" ELSE mutator,
                     !.snap = c.snap, !.response = c.response,
                     !.isFresh = c.isFresh, !.error = c.error,
                     !.fetches = c.fetches]
        /\ UNCHANGED <<calls, uris, dateNow>>

\* The caller takes the result of the call.
Return ==
    /\ ret # Idle
    /\ ret' = Idle
    /\ UNCHANGED <<calls, uris, dateNow, db_uri, db_snap, files, dirs>>

Next ==
    \/ Tick
    \/ Return
    \/ CreateSnap
    \/ GetLatestSnap
    \/ GetSnap
    \/ LoadJSON
    \/ Cache

Spec == Init /\ [][Next]_vars

\* ------------------------------------------------- calls that interleave
\* Calls made by several tasks of the one process: a call runs until it
\* awaits I/O, and the steps of the other calls run while it is suspended.
\* Every I/O of these calls succeeds (the refusals of the file system are
\* those of the calls made one after the other), so that what a call
\* observes is due to the interleaving alone.

\* A zero byte, as the file system fills a hole with.
ZeroByte == "_"

RECURSIVE Zeros(_)
Zeros(n) == IF n <= 0 THEN "" ELSE ZeroByte \o Zeros(n - 1)

\* The chunk of the content a writer writes at the offset it has reached:
\* the content is written in two chunks.
chunkAt(content, offset) ==
    LET half == Len(content) \div 2
    IN  IF offset < half
        THEN SubSeq(content, offset + 1, half)
        ELSE SubSeq(content, offset + 1, Len(content))

\* The chunk written where the file ends, whatever the position of the handle.
writeAt_Append(data, offset, chunk) == data \o chunk

\* A write of the chunk at the position of the file handle: the bytes there
\* are replaced, and a hole before the position reads as zero bytes.
writeAt(data, offset, chunk) ==
    LET padded == data \o Zeros(offset - Len(data))
        end == offset + Len(chunk)
    IN  SubSeq(padded, 1, offset) \o chunk \o SubSeq(padded, end + 1, Len(padded))

\* Deno.create(path): the file is created, or truncated when it exists.
create(path) == (path :> "") @@ files

\* A task that is free while all tasks before it are busy: a new call is
\* made by the first free task.
TaskOrder == <<"t1", "t2">>

FirstFree(t) ==
    \E i \in DOMAIN TaskOrder :
        /\ TaskOrder[i] = t
        /\ calls[t].pc = "idle"
        /\ \A j \in 1..(i - 1) : calls[TaskOrder[j]].pc # "idle"

\* The contents the interleaved calls write: a JSON text and a plain text.
ContentsInterleaved == {FetchedBody, PlainText}

\* The createSnap calls that may still record a row.
Recording == {t \in Tasks : calls[t].op = "createSnap" /\ calls[t].pc # "done"}

\* createSnap(uri, content, options) up to the first I/O of writeSnap: the
\* timestamp is taken, the digest is computed, and a digest equal to
\* options.previousHash skips the write.
CreateSnapStart(t) ==
    /\ FirstFree(t)
    /\ Len(db_snap) + Cardinality(Recording) < MaxSnaps
    /\ \E uri \in uris, content \in ContentsInterleaved :
         \E previousHash \in KnownHashes(uri) :
           LET contentHash == hash(readAll(teeContent(Text(content)).forHash))
           IN  calls' = [calls EXCEPT ![t] =
                   [NoCall EXCEPT
                      !.op = "createSnap",
                      !.pc = IF WriteOptions(previousHash).previousHash = Some(contentHash)
                             THEN "commit" ELSE "mkdir",
                      !.uri = uri, !.content = content,
                      !.previousHash = previousHash,
                      !.timestamp = now, !.contentHash = contentHash,
                      !.path = The(snapPath(directory, contentHash))]]
    /\ UNCHANGED <<uris, dateNow, db_uri, db_snap, files, dirs, ret>>

\* writeSnap: the directory of the digest is ensured.
Mkdir(t) ==
    /\ calls[t].pc = "mkdir"
    /\ dirs' = mkdir(dirname(calls[t].path))
    /\ calls' = [calls EXCEPT ![t].pc = "create"]
    /\ UNCHANGED <<uris, dateNow, db_uri, db_snap, files, ret>>

\* writeSnap: the file is created or truncated.
Create(t) ==
    /\ calls[t].pc = "create"
    /\ files' = create(calls[t].path)
    /\ calls' = [calls EXCEPT ![t].pc = "write", ![t].offset = 0]
    /\ UNCHANGED <<uris, dateNow, db_uri, db_snap, dirs, ret>>

\* writeSnap: the next chunk is written through the handle of the call; the
\* write has completed once the last chunk is written.
Write(t) ==
    /\ calls[t].pc = "write"
    /\ LET c == calls[t]
           chunk == chunkAt(c.content, c.offset)
           end == c.offset + Len(chunk)
       IN  /\ files' = [files EXCEPT ![c.path] = writeAt(@, c.offset, chunk)]
           /\ calls' = [calls EXCEPT
                          ![t].offset = end,
                          ![t].pc = IF end = Len(c.content) THEN "commit" ELSE "write"]
    /\ UNCHANGED <<uris, dateNow, db_uri, db_snap, dirs, ret>>

\* createSnap after writeSnap: #createUriQuery and #createSnapQuery run one
\* after the other with nothing awaited in between, and the metadata is
\* returned.
Commit(t) ==
    /\ calls[t].pc = "commit"
    /\ LET c == calls[t]
           u == createUriQuery(c.uri)
       IN  /\ db_uri' = u.db_uri
           /\ db_snap' = createSnapQuery(u.id, c.timestamp, c.contentHash)
           /\ calls' = [calls EXCEPT
                          ![t].pc = "done",
                          ![t].row = Len(db_snap) + 1,
                          ![t].snap = Some(SnapMeta(c.timestamp, c.contentHash, directory))]
    /\ UNCHANGED <<uris, dateNow, files, dirs, ret>>

\* loadJSON(uri) up to the read of the file: the latest snapshot is looked
\* up; without a snapshot loadJSON throws at once.
LoadJSONStart(t) ==
    /\ FirstFree(t)
    /\ \E uri \in uris :
         \E s \in getSnap(uri, NoPolicy) :
           /\ s # Undefined
           /\ calls' = [calls EXCEPT ![t] =
                   [NoCall EXCEPT
                      !.op = "loadJSON", !.pc = "read", !.uri = uri, !.snap = s,
                      !.timestamp = The(s).timestamp,
                      !.contentHash = The(s).contentHash, !.path = The(s).path]]
    /\ UNCHANGED <<uris, dateNow, db_uri, db_snap, files, dirs, ret>>

\* loadJSON: Deno.readTextFile(snap.path) answers with the bytes the file
\* holds at that moment.
LoadJSONRead(t) ==
    /\ calls[t].pc = "read"
    /\ calls' = [calls EXCEPT
                   ![t].pc = "done",
                   ![t].data = readFile(calls[t].path),
                   ![t].error = IF readFile(calls[t].path) = Undefined
                                THEN Some(StorageIO) ELSE Undefined]
    /\ UNCHANGED <<uris, dateNow, db_uri, db_snap, files, dirs, ret>>

\* The task takes the result of its call and is free for the next one.
Settle(t) ==
    /\ calls[t].pc = "done"
    /\ calls' = [calls EXCEPT ![t] = NoCall]
    /\ UNCHANGED <<uris, dateNow, db_uri, db_snap, files, dirs, ret>>

NextInterleaved ==
    \/ Tick
    \/ \E t \in Tasks : CreateSnapStart(t)
    \/ \E t \in Tasks : Mkdir(t)
    \/ \E t \in Tasks : Create(t)
    \/ \E t \in Tasks : Write(t)
    \/ \E t \in Tasks : Commit(t)
    \/ \E t \in Tasks : LoadJSONStart(t)
    \/ \E t \in Tasks : LoadJSONRead(t)
    \/ \E t \in Tasks : Settle(t)

\* The interleaved calls use the two URI strings that differ by case.
InitInterleaved == Init /\ uris = {"test:a", "test:A"}

SpecInterleaved == InitInterleaved /\ [][NextInterleaved]_vars


\* ------------------------------------------------------------------ claims

\* The recorded history of a URI: its rows, in the order they were recorded.
History(uri) == SelectSeq(db_snap, LAMBDA r : db_uri[r.uri_id] = uri)

HistoryRows(uri) == {History(uri)[i] : i \in 1..Len(History(uri))}

\* The snapshot metadata is that of the row.
IsSnapOf(snap, row) ==
    /\ snap.timestamp = row.timestamp
    /\ snap.contentHash = row.content_hash
    /\ Some(snap.path) = snapPath(directory, row.content_hash)

\* C1: getLatestSnap(uri) called without maxTimestamp returns the metadata of
\* a snapshot of that URI that has the greatest timestamp of its history
\* (none only when the URI has no snapshot); when the snapshot recorded last
\* is at least one second later than every other one, it is that one.
C1_LatestSnapHasGreatestTimestamp ==
    (ret.op = "getLatestSnap" /\ ret.policy.maxTimestamp = Undefined) =>
        LET h == History(ret.uri)
        IN  /\ (ret.snap = Undefined) <=> (h = <<>>)
            /\ ret.snap # Undefined =>
                 /\ \E r \in HistoryRows(ret.uri) : IsSnapOf(The(ret.snap), r)
                 /\ \A q \in HistoryRows(ret.uri) :
                      q.timestamp <= The(ret.snap).timestamp
            /\ (/\ h # <<>>
                /\ \A i \in 1..(Len(h) - 1) : h[i].timestamp + 1 <= h[Len(h)].timestamp)
               => IsSnapOf(The(ret.snap), h[Len(h)])

\* C1 witness: X was recorded, then Y at least a second later with other
\* content, and getLatestSnap has returned Y.
C1_Witness ==
    /\ ret.op = "getLatestSnap"
    /\ ret.policy.maxTimestamp = Undefined
    /\ Len(History(ret.uri)) = 2
    /\ History(ret.uri)[1].timestamp + 1 <= History(ret.uri)[2].timestamp
    /\ History(ret.uri)[1].content_hash # History(ret.uri)[2].content_hash
    /\ ret.snap # Undefined
    /\ IsSnapOf(The(ret.snap), History(ret.uri)[2])

CacheCall == ret = Idle /\ ret'.op = "cache"

\* The step has left the index and the content store as they were.
StorageUnchanged ==
    db_uri' = db_uri /\ db_snap' = db_snap /\ files' = files /\ dirs' = dirs

\* The step has recorded exactly one row, for the URI of the call, and has
\* returned its metadata.
OneSnapRecorded ==
    /\ Len(db_snap') = Len(db_snap) + 1
    /\ SubSeq(db_snap', 1, Len(db_snap)) = db_snap
    /\ db_uri'[db_snap'[Len(db_snap')].uri_id] = ret'.uri
    /\ ret'.snap # Undefined
    /\ IsSnapOf(The(ret'.snap), db_snap'[Len(db_snap')])

\* C3: a cache call for a URI that has no snapshot invokes the fetcher once
\* and, when it returns, has recorded exactly one snapshot and answers
\* isFresh = true; a cache call with the default policy for a URI that has a
\* snapshot invokes the fetcher zero times, records nothing and returns the
\* stored bytes of a latest snapshot with isFresh = false.
C3_CacheFetchesFirstThenServesStored ==
    [][CacheCall =>
        /\ HistoryRows(ret'.uri) = {} =>
              /\ ret'.fetches = 1
              /\ ret'.error = Undefined =>
                    /\ OneSnapRecorded
                    /\ ret'.isFresh
                    /\ ret'.response # Undefined
                    /\ files'[The(ret'.snap).path] = The(The(ret'.response).body)
              /\ ret'.error # Undefined => (~ret'.isFresh /\ db_snap' = db_snap)
        /\ (HistoryRows(ret'.uri) # {} /\ ret'.policy = NoPolicy) =>
              /\ ret'.fetches = 0
              /\ ret'.error = Undefined
              /\ ~ret'.isFresh
              /\ StorageUnchanged
              /\ ret'.snap \in getLatestSnap(ret'.uri, Undefined)
              /\ ret'.response = Some(Response(files[The(ret'.snap).path]))
    ]_vars

\* C3 witness: a cache call with the default policy has served the body that
\* was fetched and stored before, without a fetch.
C3_Witness ==
    /\ ret.op = "cache"
    /\ ret.policy = NoPolicy
    /\ ret.fetches = 0
    /\ ~ret.isFresh
    /\ Len(History(ret.uri)) = 1
    /\ ret.snap # Undefined
    /\ IsSnapOf(The(ret.snap), History(ret.uri)[1])
    /\ ret.response = Some(Response(FetchedBody))
    /\ hash(FetchedBody) = The(ret.snap).contentHash

\* The fetch of the call has failed: the fetcher has thrown, or has answered
\* with a non-success status or without a body.
FetchHasFailed ==
    /\ ret'.fetches = 1
    /\ \/ ret'.fetch = Undefined
       \/ ~The(ret'.fetch).ok
       \/ The(ret'.fetch).body = Undefined

C5_Original_FalseExactlyWhenAgeReachesMaxAge ==
    \A i \in 1..Len(db_snap), policy \in Policies :
        LET snap == snapOfRow(db_snap[i])
        IN  followsPolicy(snap, policy) =
              ~(/\ policy.maxAge # Undefined
                /\ now - snap.timestamp >= The(policy.maxAge))

\* C6: getSnap(uri, policy) returns a value getLatestSnap returns, and only
\* one that follows the policy; it returns none only when the URI has no
\* snapshot or its latest snapshot fails the policy.  For a stored snapshot
\* it returns the snapshot with no policy and with maxAge 9999, and none with
\* maxAge -9999.
C6_GetSnapIsLatestSnapFilteredByPolicy ==
    ret.op = "getSnap" =>
        LET latest == getLatestSnap(ret.uri, ret.policy.maxTimestamp)
        IN  /\ ret.snap # Undefined =>
                  /\ ret.snap \in latest
                  /\ followsPolicy(The(ret.snap), ret.policy)
            /\ ret.snap = Undefined =>
                  \E s \in latest : s = Undefined \/ ~followsPolicy(The(s), ret.policy)
            /\ HistoryRows(ret.uri) = {} => ret.snap = Undefined
            /\ (/\ HistoryRows(ret.uri) # {}
                /\ ret.policy \in {NoPolicy, Policy(Some(9999), Undefined)}) =>
                  (ret.snap # Undefined /\ ret.snap \in getLatestSnap(ret.uri, Undefined))
            /\ ret.policy = Policy(Some(-9999), Undefined) => ret.snap = Undefined

\* C6 witness: the URI has a snapshot, and getSnap with maxAge -9999 has
\* returned none.
C6_Witness ==
    /\ ret.op = "getSnap"
    /\ ret.policy = Policy(Some(-9999), Undefined)
    /\ getLatestSnap(ret.uri, Undefined) # {Undefined}
    /\ ret.snap = Undefined

\* createSnap has just returned metadata.
CreateSnapReturned == ret.op = "createSnap" /\ ret.error = Undefined /\ ret.snap # Undefined

\* No snapshot of the URI of the call with other content than the returned
\* one was recorded in the second of the returned one.
NoOtherContentInSameSecond ==
    \A r \in HistoryRows(ret.uri) :
        r.timestamp = The(ret.snap).timestamp => r.content_hash = The(ret.snap).contentHash

\* C7 as stated: right after createSnap(uri, content) has returned m,
\* getLatestSnap(uri) returns m, whatever was recorded for the URI before.
C7_Original_LatestIsTheSnapJustCreated ==
    CreateSnapReturned => getLatestSnap(ret.uri, Undefined) = {ret.snap}

\* C7 amended: right after createSnap(uri, content) has returned m,
\* getLatestSnap(uri) returns a snapshot with the timestamp of m, and it
\* returns m itself when no snapshot of the URI with other content was
\* recorded in the same second.
C7_LatestIsTheSnapJustCreatedUnlessTie ==
    CreateSnapReturned =>
        /\ \A s \in getLatestSnap(ret.uri, Undefined) :
              s # Undefined /\ The(s).timestamp = The(ret.snap).timestamp
        /\ ret.snap \in getLatestSnap(ret.uri, Undefined)
        /\ NoOtherContentInSameSecond => getLatestSnap(ret.uri, Undefined) = {ret.snap}

\* C7 witness: createSnap has returned m for a URI that had a snapshot with
\* other content from an earlier second.
C7_Witness ==
    /\ CreateSnapReturned
    /\ Len(History(ret.uri)) = 2
    /\ History(ret.uri)[1].timestamp < The(ret.snap).timestamp
    /\ History(ret.uri)[1].content_hash # The(ret.snap).contentHash
    /\ IsSnapOf(The(ret.snap), History(ret.uri)[2])
    /\ getLatestSnap(ret.uri, Undefined) = {ret.snap}

\* createSnap(uri, serialize(v)), called without a previousHash, has just
\* returned.
CreateJsonSnapReturned ==
    /\ CreateSnapReturned
    /\ ret.previousHash = Undefined
    /\ \E v \in JsonValues : ret.content = Some(stringify(v))

LoadJSONCall == ret = Idle /\ ret'.op = "loadJSON"

\* The text stored for every snapshot a lookup with the policy of the call
\* may find is not valid JSON.
StoredTextIsNoJSON ==
    \A s \in getSnap(ret'.uri, ret'.policy) :
        /\ s # Undefined
        /\ The(s).path \in DOMAIN files
        /\ files[The(s).path] \in {PlainText, ""}

\* C9: loadJSON(uri, policy) fails with "No matching snapshot found" when
\* getSnap yields none (no snapshot of the URI, or none that follows the
\* policy) and then reads no file; it fails with "Snapshot does not contain
\* valid JSON" when the stored text is not valid JSON, after reading the file
\* once.  No call of loadJSON reads more than once or changes the index or
\* the content store.
C9_LoadJsonFailsWithoutRetryOrChange ==
    [][LoadJSONCall =>
        /\ StorageUnchanged
        /\ ret'.reads <= 1
        /\ (\/ HistoryRows(ret'.uri) = {}
            \/ ret'.policy = Policy(Some(-9999), Undefined)
            \/ getSnap(ret'.uri, ret'.policy) = {Undefined}) =>
              /\ ret'.error = Some(Error(NoMatchingSnapshot))
              /\ ret'.reads = 0
              /\ ret'.snap = Undefined /\ ret'.json = Undefined
        /\ StoredTextIsNoJSON =>
              /\ ret'.error = Some(Error(NoValidJSON))
              /\ ret'.reads = 1
              /\ ret'.snap = Undefined /\ ret'.json = Undefined
    ]_vars

\* C9 witness: the latest snapshot of the URI holds "test content", and
\* loadJSON has failed to decode it after one read.
C9_Witness ==
    /\ ret.op = "loadJSON"
    /\ ret.error = Some(Error(NoValidJSON))
    /\ ret.reads = 1
    /\ \A s \in getSnap(ret.uri, ret.policy) :
          s # Undefined /\ files[The(s).path] = PlainText

\* The step is a cache call that has fetched and stored with the mutator
\* that replaces the body.
MutatedCacheCall ==
    /\ CacheCall
    /\ ret'.isFresh
    /\ ret'.responseMutator = "replace"

FreshCacheCall == CacheCall /\ ret'.fetches = 1 /\ ret'.error = Undefined

\* The call has written the file of the snapshot it returned: the stale
\* snapshot it found, if any, had another digest.
WriteNotDeduplicated ==
    \A s \in getLatestSnap(ret'.uri, ret'.policy.maxTimestamp) :
        s = Undefined \/ The(s).contentHash # The(ret'.snap).contentHash

ContentPaths == [c \in Contents |-> The(snapPath(directory, hash(c)))]

PathOf(content) == ContentPaths[content]

\* C12: the files of the content store are the files of the digests of the
\* contents written, one per digest, each holding the content of its digest
\* (or what a refused write left of it); every snapshot recorded has its
\* file, snapshots of identical content share digest and path whatever
\* their URI, and createSnap of a content whose file exists can succeed,
\* returns that path and adds no file.
C12_OneFilePerDigestAtOnePath ==
    /\ \A p \in DOMAIN files :
          \E c \in Contents : p = PathOf(c) /\ files[p] \in {c, ""}
    /\ Cardinality(DOMAIN files) =
          Cardinality({c \in Contents : PathOf(c) \in DOMAIN files})
    /\ \A i \in 1..Len(db_snap) :
          \E c \in Contents :
              /\ db_snap[i].content_hash = hash(c)
              /\ PathOf(c) \in DOMAIN files
              /\ snapOfRow(db_snap[i]).path = PathOf(c)
    /\ CreateSnapReturned =>
          LET c == The(ret.content)
          IN  /\ The(ret.snap).contentHash = hash(c)
              /\ The(ret.snap).path = PathOf(c)
              /\ \A uri \in uris :
                    \E w \in createSnap(uri, Text(c), WriteOptions(Undefined)) :
                        /\ w.error = Undefined
                        /\ w.snap = Some(SnapMeta(now, hash(c), directory))
                        /\ The(w.snap).path = The(ret.snap).path
                        /\ DOMAIN w.files = DOMAIN files
                        /\ w.files[PathOf(c)] = c

\* C12 witness: the same content has been stored for two URIs, the second
\* time without error, and the content store holds the one file of its
\* digest.
C12_Witness ==
    /\ CreateSnapReturned
    /\ Len(db_snap) = 2
    /\ db_snap[1].uri_id # db_snap[2].uri_id
    /\ db_snap[1].content_hash = db_snap[2].content_hash
    /\ DOMAIN files = {The(ret.snap).path}
    /\ files[The(ret.snap).path] = The(ret.content)

\* C13: for a URI no snapshot was ever recorded for, getLatestSnap (and
\* getSnap, which filters it) returns none, whatever has been recorded for
\* the other URI.
C13_UnknownUriHasNoSnapshot ==
    /\ \A uri \in Uris :
          History(uri) = <<>> => getLatestSnap(uri, Undefined) = {Undefined}
    /\ (ret.op \in {"getLatestSnap", "getSnap"} /\ History(ret.uri) = <<>>) =>
          ret.snap = Undefined

\* C13 witness: snapshots are recorded for one URI, and getLatestSnap of
\* the other URI, which has none, has returned none.
C13_Witness ==
    /\ ret.op = "getLatestSnap"
    /\ ret.policy.maxTimestamp = Undefined
    /\ History(ret.uri) = <<>>
    /\ Len(db_snap) = 2
    /\ ret.snap = Undefined

\* The step is a call of createSnap or cache that has completed.
WritingCall == ret = Idle /\ ret'.op \in {"createSnap", "cache"}

\* C14: a call of createSnap or cache for a URI leaves the history of every
\* other URI string as it was, and with it what getLatestSnap returns for
\* that string, bounded or not; the other string, the second one the
\* caller uses, differs from the URI of the call only by case or only by
\* surrounding whitespace.  (A call that leaves both tables of the index as
\* they were changes no history: the histories are read from them alone.)
C14_HistoriesOfDistinctUrisIndependent ==
    [][WritingCall =>
        \/ db_uri' = db_uri /\ db_snap' = db_snap
        \/ \A b \in uris \ {ret'.uri} :
              /\ History(b)' = History(b)
              /\ \A t \in {Undefined} \cup {Some(n) : n \in MaxTimestamps} :
                    getLatestSnap(b, t)' = getLatestSnap(b, t)
    ]_vars

\* C14 witness: "test:a" and " test:a " each have one snapshot, of
\* different content, the second recorded by the call just completed.
C14_Witness ==
    /\ uris = {"test:a", " test:a "}
    /\ ret.op \in {"createSnap", "cache"}
    /\ ret.error = Undefined
    /\ Len(db_snap) = 2
    /\ \A uri \in uris : Len(History(uri)) = 1
    /\ db_snap[1].content_hash # db_snap[2].content_hash
    /\ db_uri[db_snap[2].uri_id] = ret.uri

\* s is t or the beginning of t.
IsPrefix(s, t) == Len(s) <= Len(t) /\ SubSeq(t, 1, Len(s)) = s

\* C15: no step changes or removes a row recorded earlier, of the snap
\* table or of the uri table, so the history of every URI only grows at its
\* end; a createSnap that returns adds exactly one row, for its URI, with
\* the timestamp and digest it returns; a createSnap that throws and the
\* reading calls getLatestSnap, getSnap and loadJSON add none, and cache
\* adds at most one.
C15_HistoryIsAppendOnly ==
    [][/\ IsPrefix(db_snap, db_snap')
       /\ IsPrefix(db_uri, db_uri')
       /\ Len(db_snap') <= Len(db_snap) + 1
       /\ \A uri \in Uris : IsPrefix(History(uri), History(uri)')
       /\ (ret = Idle /\ ret'.op = "createSnap") =>
             IF ret'.error = Undefined
             THEN /\ OneSnapRecorded
                  /\ The(ret'.snap).timestamp = now
                  /\ \E uri \in uris :
                        /\ uri = ret'.uri
                        /\ Len(History(uri)') = Len(History(uri)) + 1
             ELSE db_snap' = db_snap /\ db_uri' = db_uri
       /\ (ret = Idle /\ ret'.op \in {"getLatestSnap", "getSnap", "loadJSON"}) =>
             (db_snap' = db_snap /\ db_uri' = db_uri)
       /\ (ret = Idle /\ ret'.op = "cache" /\ Len(db_snap') = Len(db_snap) + 1) =>
             OneSnapRecorded
    ]_vars

\* C15 witness: createSnap has returned for a URI that had a snapshot of the
\* same second with other content, and both rows are in its history.
C15_Witness ==
    /\ CreateSnapReturned
    /\ Len(History(ret.uri)) = 2
    /\ History(ret.uri)[1].timestamp = History(ret.uri)[2].timestamp
    /\ History(ret.uri)[1].content_hash # History(ret.uri)[2].content_hash
    /\ IsSnapOf(The(ret.snap), History(ret.uri)[2])

\* C16: in every state each digest referenced by a row of the index has a
\* file at its path, completely written: the bytes of the file hash to the
\* digest.
C16_EveryIndexedDigestHasCompleteFile ==
    \A i \in 1..Len(db_snap) :
        LET path == The(snapPath(directory, db_snap[i].content_hash))
        IN  /\ path \in DOMAIN files
            /\ hash(files[path]) = db_snap[i].content_hash

CreateSnapHasWritten ==
    /\ ret = Idle
    /\ ret'.op = "createSnap"
    /\ ret'.error = Undefined
    /\ ret'.snap # Undefined
    /\ ret'.previousHash # Some(The(ret'.snap).contentHash)

CreateSnapOfKnownDigest ==
    /\ ret = Idle
    /\ ret'.op = "createSnap"
    /\ ret'.previousHash = Some(hash(The(ret'.content)))

\* The body a cache call that fetched gives to createSnap.
BodyToStore ==
    LET fetched == The(ret'.fetch)
    IN  cloneBody(fetched, responseMutator(ret'.responseMutator, fetched))

\* The step is a call of cache that has fetched a body to store whose
\* digest is that of the snapshot the call found, which did not follow the
\* policy.
CacheOfKnownDigest ==
    /\ CacheCall
    /\ ret'.fetches = 1
    /\ ret'.fetch # Undefined
    /\ isStorable(The(ret'.fetch))
    /\ \A s \in getLatestSnap(ret'.uri, ret'.policy.maxTimestamp) :
          s # Undefined /\ The(s).contentHash = hash(BodyToStore)

\* The step has written nothing to the content store, has recorded one row
\* with the time of the call and the given digest, and has returned the
\* metadata of that row with the path of the digest.
RecordedWithoutWriting(digest) ==
    /\ ret'.error = Undefined
    /\ files' = files
    /\ dirs' = dirs
    /\ OneSnapRecorded
    /\ The(ret'.snap).timestamp = now
    /\ The(ret'.snap).contentHash = digest
    /\ The(ret'.snap).path = The(snapPath(directory, digest))

C20_IsFreshIffFetchedAndRecorded ==
    [][CacheCall =>
        /\ ret'.fetches \in {0, 1}
        /\ ret'.error # Undefined => db_snap' = db_snap
        /\ ret'.error = Undefined =>
              /\ ret'.isFresh <=>
                    (ret'.fetches = 1 /\ Len(db_snap') = Len(db_snap) + 1)
              /\ ret'.isFresh => OneSnapRecorded
              /\ ~ret'.isFresh <=> (ret'.fetches = 0 /\ db_snap' = db_snap)
              /\ ~ret'.isFresh =>
                    /\ StorageUnchanged
                    /\ \E r \in HistoryRows(ret'.uri) : IsSnapOf(The(ret'.snap), r)
                    /\ ret'.response = Some(Response(files[The(ret'.snap).path]))
    ]_vars

\* C20 witness: a cache call with a maxAge has been served from the file of
\* the one snapshot of its URI, recorded by a cache call before it, without
\* a fetch and with isFresh = false.
C20_Witness ==
    /\ ret.op = "cache"
    /\ ret.error = Undefined
    /\ ret.policy.maxAge # Undefined
    /\ ~ret.isFresh
    /\ ret.fetches = 0
    /\ Len(History(ret.uri)) = 1
    /\ ret.response = Some(Response(FetchedBody))

\* The policy of the call has a maxAge that is zero or negative.
MaxAgeNotPositive ==
    ret'.policy.maxAge # Undefined /\ The(ret'.policy.maxAge) <= 0

\* C21: a cache call whose maxAge is zero or negative invokes the fetcher
\* and, when it returns, answers isFresh = true, whatever snapshot of the
\* URI was recorded, in the same second included; getSnap with maxAge 0
\* returns none.
C21_NonPositiveMaxAgeForcesRefresh ==
    [][/\ (CacheCall /\ MaxAgeNotPositive) =>
             /\ ret'.fetches = 1
             /\ ret'.error = Undefined => ret'.isFresh
       /\ (ret = Idle /\ ret'.op = "getSnap" /\ ret'.policy.maxAge = Some(0)) =>
             ret'.snap = Undefined
    ]_vars

\* C26: every snapshot a cache call with policy.maxTimestamp = T returns has
\* a timestamp <= T, a snapshot fetched and recorded by the call included.
C26_CacheReturnsNoSnapshotLaterThanMaxTimestamp ==
    [][(/\ CacheCall
        /\ ret'.policy.maxTimestamp # Undefined
        /\ ret'.error = Undefined
        /\ ret'.snap # Undefined) =>
          The(ret'.snap).timestamp <= The(ret'.policy.maxTimestamp)
    ]_vars

\* No value occurs twice in the sequence.
NoDuplicates(seq) == \A i, j \in 1..Len(seq) : seq[i] = seq[j] => i = j

\* The createSnap call of the task has returned.
Committed(t) == calls[t].op = "createSnap" /\ calls[t].pc = "done"

\* C22: in every interleaving of createSnap calls, a step leaves the uri
\* rows recorded before as they are (the id of a string never changes),
\* adds at most one row and only for a string that had none, so that no
\* string has two rows; and the snapshot row of every createSnap that has
\* returned carries the id of the row of its URI string.
C22_UpsertUriKeepsOneRowPerString ==
    [][/\ IsPrefix(db_uri, db_uri')
       /\ Len(db_uri') <= Len(db_uri) + 1
       /\ NoDuplicates(db_uri')
       /\ \A i \in 1..Len(db_snap') : db_snap'[i].uri_id \in 1..Len(db_uri')
       /\ \A t \in Tasks :
             (calls'[t].op = "createSnap" /\ calls'[t].pc = "done") =>
                /\ calls'[t].row \in 1..Len(db_snap')
                /\ db_uri'[db_snap'[calls'[t].row].uri_id] = calls'[t].uri
    ]_vars

\* C22 witness: two createSnap calls for the same URI string were in flight
\* together, the one started second has committed first, and the uri table
\* has the one row both snapshot rows carry the id of.
C22_Witness ==
    /\ Committed("t1") /\ Committed("t2")
    /\ calls["t1"].uri = calls["t2"].uri
    /\ calls["t1"].row = 2 /\ calls["t2"].row = 1
    /\ db_uri = <<calls["t1"].uri>>
    /\ db_snap[1].uri_id = 1 /\ db_snap[2].uri_id = 1

\* The row the createSnap call of the task has recorded is in the index as
\* the call has returned it.
RowRecorded(t) ==
    /\ calls[t].row \in 1..Len(db_snap)
    /\ db_uri[db_snap[calls[t].row].uri_id] = calls[t].uri
    /\ IsSnapOf(The(calls[t].snap), db_snap[calls[t].row])
    /\ The(calls[t].snap).contentHash = hash(calls[t].content)

\* C23: once two interleaved createSnap calls for the same URI have both
\* returned, the index has a row of each, two rows, and getLatestSnap of the
\* URI returns a snapshot no row of the URI has a later timestamp than:
\* the last by timestamp, whichever call committed last.
C23_InterleavedCreateSnapsBothRecorded ==
    \A t, u \in Tasks :
        (t # u /\ Committed(t) /\ Committed(u) /\ calls[t].uri = calls[u].uri) =>
           /\ RowRecorded(t) /\ RowRecorded(u)
           /\ calls[t].row # calls[u].row
           /\ \A s \in getLatestSnap(calls[t].uri, Undefined) :
                 /\ s # Undefined
                 /\ \E r \in HistoryRows(calls[t].uri) : IsSnapOf(The(s), r)
                 /\ \A r \in HistoryRows(calls[t].uri) : r.timestamp <= The(s).timestamp

\* C23 witness: of two interleaved createSnap calls for one URI, the one
\* with the earlier timestamp has committed last, and getLatestSnap returns
\* the snapshot of the other, the later by timestamp.
C23_Witness ==
    /\ Committed("t1") /\ Committed("t2")
    /\ calls["t1"].uri = calls["t2"].uri
    /\ calls["t1"].timestamp < calls["t2"].timestamp
    /\ calls["t1"].row = Len(db_snap)
    /\ calls["t2"].row = Len(db_snap) - 1
    /\ getLatestSnap(calls["t1"].uri, Undefined) = {calls["t2"].snap}

\* The createSnap call of the task has completed a write of its content:
\* the write was not skipped and its last chunk is written.
WriteCompleted(t) ==
    /\ calls[t].op = "createSnap"
    /\ calls[t].pc \in {"commit", "done"}
    /\ calls[t].previousHash # Some(calls[t].contentHash)

\* C24: once two writes of the same content have both completed, however
\* their steps were interleaved, the file at the path of the digest holds
\* exactly the content; and no step of a write is kept from succeeding by
\* what the other write has done.
C24_ConcurrentDuplicateWritesAreIdempotent ==
    /\ \A t, u \in Tasks :
          (/\ t # u
           /\ WriteCompleted(t) /\ WriteCompleted(u)
           /\ calls[t].content = calls[u].content) =>
              /\ calls[t].path = calls[u].path
              /\ calls[t].path \in DOMAIN files
              /\ files[calls[t].path] = calls[t].content
    /\ \A t \in Tasks :
          /\ calls[t].pc = "mkdir" => ENABLED Mkdir(t)
          /\ calls[t].pc = "create" => ENABLED Create(t)
          /\ calls[t].pc = "write" => ENABLED Write(t)

\* C24 witness: two writes of the same content have completed, the second
\* task has committed and the first has not yet, and the file holds the
\* content.
C24_Witness ==
    /\ WriteCompleted("t1") /\ WriteCompleted("t2")
    /\ calls["t1"].content = calls["t2"].content
    /\ calls["t1"].pc = "commit" /\ calls["t2"].pc = "done"
    /\ files[calls["t1"].path] = calls["t1"].content

\* C25: whatever calls are in flight, a loadJSON that has read the file of
\* the indexed snapshot it looked up has found the file and has read the
\* whole content of the digest of that snapshot.
C25_ReadsNeverObservePartialContent ==
    \A t \in Tasks :
        (calls[t].op = "loadJSON" /\ calls[t].pc = "done") =>
           /\ calls[t].data # Undefined
           /\ \E c \in Contents :
                 hash(c) = calls[t].contentHash /\ The(calls[t].data) = c

====
